---- MODULE Spec2Model ----
(***************************************************************************)
(* Piecewise cubic Bezier fitting, osu_dreamer/signal/fit_bezier.py.       *)
(*                                                                         *)
(* Real numbers are fixed-point integers: the real x is the integer        *)
(* round(x * SCALE).  A product of two such numbers is divided by SCALE    *)
(* again (rounding to nearest); squared distances and the least-squares    *)
(* system are kept at SCALE^2.  A call is followed while its quantities    *)
(* fit the number range below (GenInRange, NewtonInRange).                 *)
(* The only non-finite value the code can produce from                     *)
(* finite input is the NaN of 0/0 in the chord-length parameterization; it *)
(* then spreads to every later quantity of that call, so it is one flag.   *)
(* Sequence indices that the source computes (split_point) keep the        *)
(* source's 0-based values.                                                *)
(***************************************************************************)
EXTENDS Integers, Sequences, FiniteSets, TLC

\* ------------------------------------------------------------------ bounds
SCALE == 3 * 16            \* units per 1.0; a multiple of 3, so thirds of unit lengths are exact
MaxLen == 4                \* longest input polyline
MaxMag == 30000            \* largest factor of a product (two products still fit 32 bits)
MaxQuot == 40000000        \* largest dividend that is multiplied by SCALE before a division
MaxCtrl == 288             \* largest coordinate of a control point (6.0)
ULo == 0 - SCALE           \* a parameter is followed while it stays in [-1, 2]
UHi == 2 * SCALE
Grid == {<<0, 0>>, <<SCALE, 0>>, <<0, SCALE>>, <<2 * SCALE, 0>>}
MaxErrs == {(SCALE * SCALE) \div 2, SCALE * SCALE, 2 * SCALE * SCALE}

\* ------------------------------------------------------- program constants
MaxRounds == 32            \* range(32)
MaxWeights == 10           \* min(10, len(points)-2)
DetEpsInv == 100000        \* abs(det_C0_C1) < 1e-5
AlphaEpsInv == 1000000     \* epsilon = 1e-6 * seg_len
None == <<>>               \* left_tangent=None, right_tangent=None, u = None

VARIABLES
    input,          \* the polyline of the top-level call
    max_err,        \* max_err, at SCALE^2
    points,         \* points of the call being executed
    left_tangent,   \* its left_tangent (None until resolved at a top-level call)
    right_tangent,  \* its right_tangent
    stack,          \* the pending right-hand calls: <<points, left_tangent, right_tangent>> records
    pc,             \* position in the call: call, two, loop, gen, test, split, done, raised
    round,          \* completed iterations of "for _ in range(32)"
    u,              \* the parameterization (None before the first iteration)
    nan,            \* u, bez_curve and errs are NaN
    bez_curve,      \* the curve of the latest iteration
    split_point,    \* errs.argmax()
    err,            \* errs[split_point]
    result,         \* curves returned so far, in order
    u_prev,         \* the parameterization the latest Newton-Raphson step started from
    fitted,         \* per returned curve: the points and parameterization it was fitted to
    exit            \* how the loop of the current call was left: none, success, abort, exhausted

vars == <<input, max_err, points, left_tangent, right_tangent, stack, pc, round, u, nan,
          bez_curve, split_point, err, result, u_prev, fitted, exit>>

\* -------------------------------------------------------------- arithmetic
Abs(x) == IF x < 0 THEN 0 - x ELSE x

\* a / b rounded to the nearest integer (b # 0)
Div(a, b) ==
    LET n == IF b < 0 THEN 0 - a ELSE a
        m == Abs(b)
        q0 == n \div m
        r == n % m
    IN  IF r >= m - r THEN q0 + 1 ELSE q0

CeilDiv(a, b) == (a + b - 1) \div b

RECURSIVE SqrtIter(_, _)
SqrtIter(n, x) ==
    LET y == (x + n \div x) \div 2
    IN  IF y >= x THEN x ELSE SqrtIter(n, y)

\* np.sqrt, rounded to nearest
Sqrt(n) ==
    IF n = 0 THEN 0
    ELSE LET r == SqrtIter(n, n)
         IN  IF n - r * r > r THEN r + 1 ELSE r

Sub(a, b) == <<a[1] - b[1], a[2] - b[2]>>
Add(a, b) == <<a[1] + b[1], a[2] + b[2]>>
Neg(a) == <<0 - a[1], 0 - a[2]>>
Dot(a, b) == a[1] * b[1] + a[2] * b[2]
Scal(v, s) == <<Div(v[1] * s, SCALE), Div(v[2] * s, SCALE)>>
Norm(v) == Sqrt(Dot(v, v))

RECURSIVE SumSeq(_)
SumSeq(s) == IF s = <<>> THEN 0 ELSE Head(s) + SumSeq(Tail(s))

RECURSIVE SumVec(_)
SumVec(s) == IF s = <<>> THEN <<0, 0>> ELSE Add(Head(s), SumVec(Tail(s)))

Pow2(n) == 2 ^ n

\* the sequence f[1], ..., f[n]
RECURSIVE SeqFrom(_, _, _)
SeqFrom(f, i, n) == IF i > n THEN <<>> ELSE <<f[i]>> \o SeqFrom(f, i + 1, n)
SeqOf(f, n) == SeqFrom(f, 1, n)

\* ------------------------------------------------------------- evaluators
\* p.shape[0] * (p[1:] - p[:-1])
hodo(p) ==
    SeqOf([i \in 1..(Len(p) - 1) |->
              <<Len(p) * (p[i + 1][1] - p[i][1]), Len(p) * (p[i + 1][2] - p[i][2])>>], Len(p) - 1)

Lerp(a, b, t) ==
    <<Div((SCALE - t) * a[1] + t * b[1], SCALE), Div((SCALE - t) * a[2] + t * b[2], SCALE)>>

\* bezier.Curve.from_nodes(nodes).evaluate_multi(t), for one t: the Bezier curve of any
\* degree with control points nodes (de Casteljau)
RECURSIVE evaluate(_, _)
evaluate(nodes, t) ==
    IF Len(nodes) = 1 THEN nodes[1]
    ELSE evaluate(SeqOf([i \in 1..(Len(nodes) - 1) |-> Lerp(nodes[i], nodes[i + 1], t)],
                        Len(nodes) - 1), t)

q(p, t) == evaluate(p, t)
qprime(p, t) == evaluate(hodo(p), t)
qprimeprime(p, t) == evaluate(hodo(hodo(p)), t)

\* v unchanged when its magnitude is below machine epsilon (less than one unit here)
normalize(v) ==
    LET magnitude == Sqrt(Dot(v, v))
    IN  IF magnitude < 1 THEN v
        ELSE <<Div(v[1] * SCALE, magnitude), Div(v[2] * SCALE, magnitude)>>

\* ------------------------------------------------------- tangent estimates
Min(a, b) == IF a < b THEN a ELSE b

\* (float(x)**-arange(1,n+1)) / (1 - float(x)**-n) * (x-1) with x = 2:
\* weight k is 2^-k / (1 - 2^-n) = 2^(n-k) / (2^n - 1); empty when n <= 0
weights(n) == SeqOf([k \in 1..n |-> Div(SCALE * Pow2(n - k), Pow2(n) - 1)], n)

NumWeights(pts) == Min(MaxWeights, Len(pts) - 2)

\* points[2:2+len(weights)] - points[1], weighted, summed, normalized
default_left_tangent(pts) ==
    LET w == weights(NumWeights(pts))
        l_vecs == [k \in 1..Len(w) |-> Sub(pts[2 + k], pts[2])]
    IN  normalize(SumVec(SeqOf([k \in 1..Len(w) |-> Scal(l_vecs[k], w[k])], Len(w))))

\* points[-3:-3-len(weights):-1] - points[-2], weighted, summed, normalized
default_right_tangent(pts) ==
    LET w == weights(NumWeights(pts))
        r_vecs == [k \in 1..Len(w) |-> Sub(pts[Len(pts) - 1 - k], pts[Len(pts) - 1])]
    IN  normalize(SumVec(SeqOf([k \in 1..Len(w) |-> Scal(r_vecs[k], w[k])], Len(w))))

\* the two-point heuristic
two_point_curve(pts, lt, rt) ==
    LET dist == Div(Norm(Sub(pts[1], pts[2])), 3)
    IN  <<pts[1], Add(pts[1], Scal(lt, dist)), Add(pts[2], Scal(rt, dist)), pts[2]>>

\* ------------------------------------------------------- parameterization
RECURSIVE CumSum(_, _)
CumSum(s, acc) == IF s = <<>> THEN <<>> ELSE <<acc + Head(s)>> \o CumSum(Tail(s), acc + Head(s))

\* u = [0]; u[1:] = np.cumsum(np.linalg.norm(points[1:] - points[:-1], axis=1))
chord_lengths(pts) ==
    <<0>> \o CumSum(SeqOf([i \in 1..(Len(pts) - 1) |-> Norm(Sub(pts[i + 1], pts[i]))],
                          Len(pts) - 1), 0)

\* u /= u[-1] divides 0 by 0 when every point coincides: each entry is NaN
chord_is_nan(pts) == chord_lengths(pts)[Len(pts)] = 0

chord_parameterize(pts) ==
    LET c == chord_lengths(pts)
    IN  SeqOf([i \in 1..Len(pts) |-> Div(c[i] * SCALE, c[Len(pts)])], Len(pts))

\* ----------------------------------------------------------- generate_bezier
\* 3 (1-u)^2 u and 3 (1-u) u^2, at SCALE^2
Bern1(t) == Div(3 * (SCALE - t) * (SCALE - t) * t, SCALE)
Bern2(t) == Div(3 * (SCALE - t) * t * t, SCALE)

\* A[l] = (3 * (1-u) * u * [1-u, u]) x [left_tangent, right_tangent], at SCALE^2
AMatrix(pts, uu, lt, rt) ==
    SeqOf([l \in 1..Len(pts) |-> <<Scal(lt, Bern1(uu[l])), Scal(rt, Bern2(uu[l]))>>], Len(pts))

Baseline(pts) == <<pts[1], pts[1], pts[Len(pts)], pts[Len(pts)]>>

\* C = einsum('lix,ljx->ij', A, A), at SCALE^2
CMatrix(pts, uu, lt, rt) ==
    LET A == AMatrix(pts, uu, lt, rt)
        c(i, j) == SumSeq(SeqOf([l \in 1..Len(pts) |->
                                   Div(Dot(A[l][i], A[l][j]), SCALE * SCALE)], Len(pts)))
    IN  <<(<<c(1, 1), c(1, 2)>>), (<<c(2, 1), c(2, 2)>>)>>

\* X = einsum('lix,lx->i', A, points - q(bez_curve, u)), at SCALE^2
XVector(pts, uu, lt, rt) ==
    LET A == AMatrix(pts, uu, lt, rt)
        x(i) == SumSeq(SeqOf([l \in 1..Len(pts) |->
                            Div(Dot(A[l][i], Sub(pts[l], q(Baseline(pts), uu[l]))), SCALE)],
                            Len(pts)))
    IN  <<x(1), x(2)>>

det_C0_C1(C) == C[1][1] * C[2][2] - C[2][1] * C[1][2]
det_C0_X(C, X) == C[1][1] * X[2] - C[2][1] * X[1]
det_X_C1(C, X) == X[1] * C[2][2] - X[2] * C[1][2]

\* abs(det_C0_C1) < 1e-5, the determinant being at SCALE^4
det_is_small(C) == Abs(det_C0_C1(C)) < CeilDiv(SCALE * SCALE * SCALE * SCALE, DetEpsInv)

alpha_l(C, X) == IF det_is_small(C) THEN 0 ELSE Div(det_X_C1(C, X) * SCALE, det_C0_C1(C))
alpha_r(C, X) == IF det_is_small(C) THEN 0 ELSE Div(det_C0_X(C, X) * SCALE, det_C0_C1(C))

seg_len(pts) == Norm(Sub(pts[1], pts[Len(pts)]))

\* alpha_l < epsilon or alpha_r < epsilon, with epsilon = 1e-6 * seg_len
use_heuristic(pts, al, ar) ==
    LET epsilon == CeilDiv(seg_len(pts), AlphaEpsInv)
    IN  al < epsilon \/ ar < epsilon

\* slip: the right offset is added to the last control point instead of the third
place_controls_last(pts, lt, rt, al, ar) ==
    IF use_heuristic(pts, al, ar)
    THEN <<pts[1], Add(pts[1], Scal(lt, Div(seg_len(pts), 3))),
           pts[Len(pts)], Add(pts[Len(pts)], Scal(rt, Div(seg_len(pts), 3)))>>
    ELSE <<pts[1], Add(pts[1], Scal(lt, al)), pts[Len(pts)], Add(pts[Len(pts)], Scal(rt, ar))>>

place_controls(pts, lt, rt, al, ar) ==
    IF use_heuristic(pts, al, ar)
    THEN <<pts[1], Add(pts[1], Scal(lt, Div(seg_len(pts), 3))),
           Add(pts[Len(pts)], Scal(rt, Div(seg_len(pts), 3))), pts[Len(pts)]>>
    ELSE <<pts[1], Add(pts[1], Scal(lt, al)), Add(pts[Len(pts)], Scal(rt, ar)), pts[Len(pts)]>>

generate_bezier(pts, uu, lt, rt) ==
    LET C == CMatrix(pts, uu, lt, rt)
        X == XVector(pts, uu, lt, rt)
    IN  place_controls(pts, lt, rt, alpha_l(C, X), alpha_r(C, X))

\* every quantity of generate_bezier fits the number range of the model
GenInRange(pts, uu, lt, rt) ==
    LET C == CMatrix(pts, uu, lt, rt)
        X == XVector(pts, uu, lt, rt)
    IN  /\ \A i \in 1..2 : Abs(X[i]) <= MaxMag /\ \A j \in 1..2 : Abs(C[i][j]) <= MaxMag
        /\ IF det_is_small(C) THEN TRUE
           ELSE Abs(det_X_C1(C, X)) <= MaxQuot /\ Abs(det_C0_X(C, X)) <= MaxQuot
        /\ Abs(alpha_l(C, X)) <= MaxMag /\ Abs(alpha_r(C, X)) <= MaxMag
        /\ LET bez == place_controls(pts, lt, rt, alpha_l(C, X), alpha_r(C, X))
           IN  \A k \in 1..4 : \A c \in 1..2 : Abs(bez[k][c]) <= MaxCtrl

\* errs = ((q(bez_curve, u) - points) ** 2).sum(-1), at SCALE^2
errs(bez, pts, uu) ==
    SeqOf([i \in 1..Len(pts) |->
              LET d == Sub(q(bez, uu[i]), pts[i]) IN Dot(d, d)], Len(pts))

\* errs.argmax(), 0-based: the first index that holds the maximum
argmax(e) ==
    (CHOOSE i \in 1..Len(e) : (\A j \in 1..Len(e) : e[j] <= e[i]) /\ (\A j \in 1..(i - 1) : e[j] < e[i])) - 1

\* ----------------------------------------------------- newton_raphson_root_find
\* num = (d * qp).sum(-1), with d = q(bez, u) - points
nr_num(bez, p, t) == Dot(Sub(q(bez, t), p), qprime(bez, t))

\* den = (qp**2 + d*qprimeprime(bez, u)).sum(-1)
nr_den(bez, p, t) ==
    LET qp == qprime(bez, t)
    IN  Dot(qp, qp) + Dot(Sub(q(bez, t), p), qprimeprime(bez, t))

\* np.where(den==0, 0, num/den)
nr_step(bez, p, t) ==
    LET num == nr_num(bez, p, t)
        den == nr_den(bez, p, t)
    IN  IF den = 0 THEN 0 ELSE Div(num * SCALE, den)

\* return u + np.where(den==0, 0, num/den)
newton_raphson_root_find(bez, pts, uu) ==
    SeqOf([i \in 1..Len(pts) |-> uu[i] + nr_step(bez, pts[i], uu[i])], Len(pts))

\* the step and the refined parameters fit the number range of the model
NewtonInRange(bez, pts, uu) ==
    \A i \in 1..Len(pts) :
        /\ Abs(nr_num(bez, pts[i], uu[i])) <= MaxQuot
        /\ LET v == uu[i] + nr_step(bez, pts[i], uu[i])
           IN  v >= ULo /\ v <= UHi

\* ------------------------------------------------------------- fit_bezier
Polylines == UNION {[1..n -> Grid] : n \in 2..MaxLen}

Init ==
    /\ input \in Polylines
    /\ max_err \in MaxErrs
    /\ points = input
    /\ left_tangent = None
    /\ right_tangent = None
    /\ stack = <<>>
    /\ pc = "call"
    /\ round = 0
    /\ u = None
    /\ nan = FALSE
    /\ bez_curve = None
    /\ split_point = 0
    /\ err = 0
    /\ result = <<>>
    /\ u_prev = None
    /\ fitted = <<>>
    /\ exit = "none"

\* max_err ** 2, at SCALE^2
Sq(m) == Div(m * m, SCALE * SCALE)

\* slip: the success test admits err = max_err
VerdictLe(e, isnan, m, r) ==
    IF ~isnan /\ e <= m THEN "success"
    ELSE IF ~isnan /\ e > Sq(m) THEN "abort"
    ELSE IF r < MaxRounds THEN "continue"
    ELSE "exhausted"

\* slip: the abort test is made before the success test
VerdictAbortFirst(e, isnan, m, r) ==
    IF ~isnan /\ e > Sq(m) THEN "abort"
    ELSE IF ~isnan /\ e < m THEN "success"
    ELSE IF r < MaxRounds THEN "continue"
    ELSE "exhausted"

\* the two tests after an iteration, in the order the loop makes them, and the end of range(32)
Verdict(e, isnan, m, r) ==
    IF ~isnan /\ e < m THEN "success"
    ELSE IF ~isnan /\ e > Sq(m) THEN "abort"
    ELSE IF r < MaxRounds THEN "continue"
    ELSE "exhausted"

\* "return [...]" of the call being executed: its curves follow those already returned and
\* the caller's next call (the right half of the innermost pending split), if any, starts
Return(curve, fit) ==
    /\ result' = Append(result, curve)
    /\ fitted' = Append(fitted, fit)
    /\ IF stack = <<>>
       THEN /\ pc' = "done"
            /\ UNCHANGED <<points, left_tangent, right_tangent, stack>>
       ELSE /\ pc' = "call"
            /\ points' = Head(stack).points
            /\ left_tangent' = Head(stack).left_tangent
            /\ right_tangent' = Head(stack).right_tangent
            /\ stack' = Tail(stack)

\* entry of a call: the tangents that were not supplied are estimated
Enter ==
    /\ pc = "call"
    /\ left_tangent' = IF left_tangent = None THEN default_left_tangent(points) ELSE left_tangent
    /\ right_tangent' = IF right_tangent = None THEN default_right_tangent(points) ELSE right_tangent
    /\ pc' = IF Len(points) = 2 THEN "two" ELSE "loop"
    /\ round' = 0
    /\ u' = None
    /\ nan' = FALSE
    /\ exit' = "none"
    /\ UNCHANGED <<input, max_err, points, stack, bez_curve, split_point, err, result, u_prev,
                   fitted>>

\* if len(points) == 2: return the heuristic curve
TwoPoint ==
    /\ pc = "two"
    /\ Return(two_point_curve(points, left_tangent, right_tangent),
              [points |-> points, u |-> None])
    /\ UNCHANGED <<input, max_err, round, u, nan, bez_curve, split_point, err, u_prev, exit>>

\* first iteration on a single point: u = [0] stays a list holding the int 0, and
\* "u /= u[-1]" raises TypeError
ParameterizeRaises ==
    /\ pc = "loop"
    /\ u = None
    /\ Len(points) < 2
    /\ pc' = "raised"
    /\ UNCHANGED <<input, max_err, points, left_tangent, right_tangent, stack, round, u, nan,
                   bez_curve, split_point, err, result, u_prev, fitted, exit>>

\* first iteration: chord-length parameterization
Parameterize ==
    /\ pc = "loop"
    /\ u = None
    /\ Len(points) >= 2
    /\ nan' = chord_is_nan(points)
    /\ u' = IF chord_is_nan(points) THEN SeqOf([i \in 1..Len(points) |-> 0], Len(points))
            ELSE chord_parameterize(points)
    /\ pc' = "gen"
    /\ UNCHANGED <<input, max_err, points, left_tangent, right_tangent, stack, round,
                   bez_curve, split_point, err, result, u_prev, fitted, exit>>

\* later iterations: u = newton_raphson_root_find(bez_curve, points, u)
Reparameterize ==
    /\ pc = "loop"
    /\ u # None
    /\ IF nan THEN TRUE ELSE NewtonInRange(bez_curve, points, u)
    /\ u_prev' = u
    /\ u' = IF nan THEN u ELSE newton_raphson_root_find(bez_curve, points, u)
    /\ pc' = "gen"
    /\ UNCHANGED <<input, max_err, points, left_tangent, right_tangent, stack, round, nan,
                   bez_curve, split_point, err, result, fitted, exit>>

\* bez_curve = generate_bezier(...); errs, split_point, err
Generate ==
    /\ pc = "gen"
    /\ IF nan THEN TRUE ELSE GenInRange(points, u, left_tangent, right_tangent)
    /\ IF nan
       THEN \* every entry of errs is NaN: argmax is the first of them, no comparison holds
            /\ bez_curve' = bez_curve
            /\ split_point' = 0
            /\ err' = 0
       ELSE LET bez == generate_bezier(points, u, left_tangent, right_tangent)
                e == errs(bez, points, u)
            IN  /\ bez_curve' = bez
                /\ split_point' = argmax(e)
                /\ err' = e[argmax(e) + 1]
    /\ round' = round + 1
    /\ pc' = "test"
    /\ UNCHANGED <<input, max_err, points, left_tangent, right_tangent, stack, u, nan, result,
                   u_prev, fitted, exit>>

\* if err < max_err: return [bez_curve]
Success ==
    /\ pc = "test"
    /\ Verdict(err, nan, max_err, round) = "success"
    /\ exit' = "success"
    /\ Return(bez_curve, [points |-> points, u |-> u])
    /\ UNCHANGED <<input, max_err, round, u, nan, bez_curve, split_point, err, u_prev>>

\* if err > max_err ** 2: break
Abort ==
    /\ pc = "test"
    /\ Verdict(err, nan, max_err, round) = "abort"
    /\ exit' = "abort"
    /\ pc' = "split"
    /\ UNCHANGED <<input, max_err, points, left_tangent, right_tangent, stack, round, u, nan,
                   bez_curve, split_point, err, result, u_prev, fitted>>

\* next iteration
Continue ==
    /\ pc = "test"
    /\ Verdict(err, nan, max_err, round) = "continue"
    /\ pc' = "loop"
    /\ UNCHANGED <<input, max_err, points, left_tangent, right_tangent, stack, round, u, nan,
                   bez_curve, split_point, err, result, u_prev, fitted, exit>>

\* range(32) is used up
Exhausted ==
    /\ pc = "test"
    /\ Verdict(err, nan, max_err, round) = "exhausted"
    /\ exit' = "exhausted"
    /\ pc' = "split"
    /\ UNCHANGED <<input, max_err, points, left_tangent, right_tangent, stack, round, u, nan,
                   bez_curve, split_point, err, result, u_prev, fitted>>

\* points[i] with Python's index rule: a negative i counts from the end
PyIndex(pts, i) == IF i < 0 THEN pts[Len(pts) + i + 1] ELSE pts[i + 1]

center_tangent(pts, sp) == normalize(Sub(PyIndex(pts, sp - 1), PyIndex(pts, sp + 1)))

left_range(pts, sp) == SubSeq(pts, 1, sp + 1)          \* points[:split_point+1]
\* slip: points[split_point+1:]
right_range_after(pts, sp) == SubSeq(pts, sp + 2, Len(pts))

right_range(pts, sp) == SubSeq(pts, sp + 1, Len(pts))  \* points[split_point:]

\* the recursive calls: the left half runs first, the right half waits for its return
Subdivide ==
    /\ pc = "split"
    /\ split_point + 1 < Len(points)
    /\ LET ct == center_tangent(points, split_point)
       IN  /\ stack' = <<[points |-> right_range(points, split_point),
                          left_tangent |-> Neg(ct),
                          right_tangent |-> right_tangent]>> \o stack
           /\ points' = left_range(points, split_point)
           /\ right_tangent' = ct
    /\ pc' = "call"
    /\ UNCHANGED <<input, max_err, left_tangent, round, u, nan, bez_curve, split_point, err,
                   result, u_prev, fitted, exit>>

Next ==
    \/ Enter
    \/ TwoPoint
    \/ ParameterizeRaises
    \/ Parameterize
    \/ Reparameterize
    \/ Generate
    \/ Success
    \/ Abort
    \/ Continue
    \/ Exhausted
    \/ Subdivide

Spec == Init /\ [][Next]_vars

\* ------------------------------------------------------------------ claims
InputPoints == {input[i] : i \in 1..Len(input)}

\* C1: every returned curve has exactly 4 control points, its P0 and P3 are points of the
\* input polyline at every recursion depth, and a finished call has returned at least one curve
C1_EndpointsFromInput ==
    /\ \A k \in 1..Len(result) :
           /\ Len(result[k]) = 4
           /\ result[k][1] \in InputPoints
           /\ result[k][4] \in InputPoints
    /\ pc = "done" => Len(result) >= 1

\* a finished call that subdivided and returned a least-squares curve from a sub-range
C1_Witness ==
    /\ pc = "done"
    /\ Len(result) >= 2
    /\ \E k \in 1..Len(result) : Len(fitted[k].points) >= 3 /\ result[k][2] # result[k][1]

\* C2: a returned curve that was fitted to 3 or more points deviates from each of them, at
\* the parameter of the iteration that returned it, by a squared distance below max_err
C2_ReturnedBelowMaxErr ==
    \A k \in 1..Len(fitted) :
        Len(fitted[k].points) >= 3 =>
            \A i \in 1..Len(fitted[k].points) :
                errs(result[k], fitted[k].points, fitted[k].u)[i] < max_err

\* a curve returned through the success branch with a non-zero error, after a refinement
C2_Witness ==
    \E k \in 1..Len(fitted) :
        /\ Len(fitted[k].points) >= 3
        /\ fitted[k].u # chord_parameterize(fitted[k].points)
        /\ \E i \in 1..Len(fitted[k].points) :
               errs(result[k], fitted[k].points, fitted[k].u)[i] > 0

\* C3: when a range of L >= 3 points is subdivided, 1 <= split_point <= L-2
C3_SplitInside ==
    pc = "split" => (split_point >= 1 /\ split_point <= Len(points) - 2)

\* C4: a call on 2 or more points raises no exception
C4_NoException == pc # "raised"

\* C5: two points and no tangents give the single curve
\* [P0, P0 + (P1-P0)/3, P1 + (P0-P1)/3, P1]
C5_TwoPointThirds ==
    (pc = "done" /\ Len(input) = 2) =>
        result = << <<input[1],
                      Add(input[1], <<Div(input[2][1] - input[1][1], 3), Div(input[2][2] - input[1][2], 3)>>),
                      Add(input[2], <<Div(input[1][1] - input[2][1], 3), Div(input[1][2] - input[2][2], 3)>>),
                      input[2]>> >>

\* C6: the returned curves chain over the input in order: the first starts at the first
\* input point, each ends where the next starts (the point at the split index, which also
\* heads the pending right range), and the last ends at the last input point
C6_Chain ==
    /\ Len(result) >= 1 => result[1][1] = input[1]
    /\ \A k \in 1..(Len(result) - 1) : result[k][4] = result[k + 1][1]
    /\ pc = "done" => result[Len(result)][4] = input[Len(input)]
    /\ (stack # <<>> /\ pc # "raised") => points[Len(points)] = Head(stack).points[1]
    /\ \A j \in 1..(Len(stack) - 1) :
           stack[j].points[Len(stack[j].points)] = stack[j + 1].points[1]
    /\ (pc \in {"call", "two", "loop", "gen", "test", "split"} /\ Len(result) >= 1) =>
           result[Len(result)][4] = points[1]

\* a finished call with two or more curves between distinct end points
C6_Witness ==
    /\ pc = "done"
    /\ Len(result) >= 2
    /\ input[1] # input[Len(input)]
    /\ result[1][4] # input[1]

\* C7: a Newton-Raphson step maps u_i to u_i - numerator/denominator, and leaves it
\* unchanged when the denominator is zero
C7_NewtonSubtracts ==
    (pc = "gen" /\ round >= 1 /\ ~nan) =>
        \A i \in 1..Len(points) : u[i] = u_prev[i] - nr_step(bez_curve, points[i], u_prev[i])

\* C8: q' is built on the control points 3*(P[i+1]-P[i]) and q'' on
\* 6*(P[i+2] - 2*P[i+1] + P[i])
C8_Hodograph ==
    (pc = "gen" /\ round >= 1 /\ ~nan) =>
        /\ hodo(bez_curve) =
               <<Sub(<<3 * bez_curve[2][1], 3 * bez_curve[2][2]>>, <<3 * bez_curve[1][1], 3 * bez_curve[1][2]>>),
                 Sub(<<3 * bez_curve[3][1], 3 * bez_curve[3][2]>>, <<3 * bez_curve[2][1], 3 * bez_curve[2][2]>>),
                 Sub(<<3 * bez_curve[4][1], 3 * bez_curve[4][2]>>, <<3 * bez_curve[3][1], 3 * bez_curve[3][2]>>)>>
        /\ hodo(hodo(bez_curve)) =
               <<<<6 * (bez_curve[3][1] - 2 * bez_curve[2][1] + bez_curve[1][1]),
                   6 * (bez_curve[3][2] - 2 * bez_curve[2][2] + bez_curve[1][2])>>,
                 <<6 * (bez_curve[4][1] - 2 * bez_curve[3][1] + bez_curve[2][1]),
                   6 * (bez_curve[4][2] - 2 * bez_curve[3][2] + bez_curve[2][2])>>>>

\* C9: generate_bezier returns a curve with P1 # P0 and P2 # P3
C9_NonCoincident ==
    (pc = "test" /\ ~nan) =>
        (bez_curve[2] # bez_curve[1] /\ bez_curve[3] # bez_curve[4])

\* C10: the loop makes at most 32 rounds; the first uses the chord-length parameterization
\* and each later one the Newton-Raphson step on the previous curve; it goes on only while
\* neither test holds, returns when err < max_err (tested first), breaks when
\* err > max_err^2, and otherwise subdivides after round 32
C10_LoopExits ==
    /\ round <= MaxRounds
    /\ (pc = "gen" /\ round = 0 /\ ~nan) => u = chord_parameterize(points)
    /\ (pc = "gen" /\ round >= 1 /\ ~nan) =>
           u = newton_raphson_root_find(bez_curve, points, u_prev)
    /\ (pc \in {"loop", "gen"} /\ round >= 1) =>
           (round < MaxRounds /\ (nan \/ (~(err < max_err) /\ ~(err > Sq(max_err)))))
    /\ exit = "success" => (~nan /\ err < max_err /\ pc \in {"call", "done"})
    /\ exit = "abort" =>
           (~nan /\ ~(err < max_err) /\ err > Sq(max_err) /\ pc \in {"split", "call"})
    /\ exit = "exhausted" =>
           (round = MaxRounds /\ pc \in {"split", "call"}
            /\ (nan \/ (~(err < max_err) /\ ~(err > Sq(max_err)))))
    /\ pc = "split" => exit \in {"abort", "exhausted"}

\* the 32nd round of a loop on finite numbers ends with neither test holding
C10_Witness ==
    /\ pc = "split"
    /\ exit = "exhausted"
    /\ ~nan
    /\ round = MaxRounds
    /\ u_prev # None

====
